---- MODULE Spec2Model ----
(***************************************************************************)
(* Failure similarity and pattern-analysis engine of ai-analysis:          *)
(* AnalysisService (analysis_service.py) over VectorStore                  *)
(* (vector_store.py), TestEvent (log_parser.py) and Settings (settings.py).*)
(*                                                                         *)
(* Conventions.                                                            *)
(*  - A Python str that the code searches or lower-cases (the error        *)
(*    message) is a sequence of one-character strings; names that are only *)
(*    copied and compared are TLA+ strings.                                *)
(*  - A stacktrace is the sequence of its lines (what split("\n") yields); *)
(*    << >> is the absent/empty stacktrace.                                *)
(*  - A similarity score is an integer number of hundredths (0.3 is 30),   *)
(*    standing for the float that literal denotes; the floats the code     *)
(*    computes from scores and counts (avg_similarity, failure_rate) are   *)
(*    binary64 values, computed with the code's operations in its order.   *)
(*  - An embedding vector is the number of its text in Texts; the cosine   *)
(*    of two vectors is read from the table cos, which the embedding model *)
(*    fixes once (chosen in Init) with cos[v][v] = 100.                    *)
(***************************************************************************)
EXTENDS Integers, Sequences, FiniteSets, TLC

(***************************************************************************)
(* Bounds                                                                  *)
(***************************************************************************)
MaxEvents == 3      \* longest event log
MaxLoads  == 2      \* load_and_index runs (explicit or lazy) per behaviour
MaxTopK   == 1      \* largest explicit top_k of a find_similar call
MaxHits   == 3      \* longest list of candidate scores in the pure checks
EmbThreads == 2     \* threads that call EmbeddingService() after the import
MaxConstructions == 2   \* constructions per calling thread
LazyThreads == 2    \* threads that call one AnalysisService
MaxCalls == 1       \* find_similar_failures calls per thread

(***************************************************************************)
(* Settings (config/settings.py) and the constants of analysis_service.py  *)
(***************************************************************************)
SIMILARITY_THRESHOLD == 30
TOP_K_RESULTS        == 5
RECURRING_SCORE      == 85
VERY_HIGH_AVG        == 90
STACK_LINES          == 10
MOST_COMMON          == 5

\* an optional argument or value: None is << >>, the value v is <<v>>
None == << >>
Some(v) == <<v>>

Min(a, b) == IF a < b THEN a ELSE b

RECURSIVE SumSeq(_)
SumSeq(s) == IF s = << >> THEN 0 ELSE Head(s) + SumSeq(Tail(s))

(***************************************************************************)
(* Python string operations on character sequences                         *)
(***************************************************************************)
Upper == <<"A","B","C","D","E","F","G","H","I","J","K","L","M",
           "N","O","P","Q","R","S","T","U","V","W","X","Y","Z">>
LowerOf == <<"a","b","c","d","e","f","g","h","i","j","k","l","m",
             "n","o","p","q","r","s","t","u","v","w","x","y","z">>

\* str.lower(), one character
LowerChar(c) ==
    IF \E i \in 1..Len(Upper) : Upper[i] = c
    THEN LowerOf[CHOOSE i \in 1..Len(Upper) : Upper[i] = c]
    ELSE c

\* str.lower()
Lower(s) == [i \in 1..Len(s) |-> LowerChar(s[i])]

\* needle in haystack (substring test)
Contains(hay, needle) ==
    \E i \in 0..(Len(hay) - Len(needle)) :
        \A j \in 1..Len(needle) : hay[i + j] = needle[j]

S_timeout       == <<"t","i","m","e","o","u","t">>
S_element_nf    == <<"e","l","e","m","e","n","t"," ","n","o","t"," ","f","o","u","n","d">>
S_nosuchelement == <<"n","o","s","u","c","h","e","l","e","m","e","n","t">>
S_assertion     == <<"a","s","s","e","r","t","i","o","n">>

(***************************************************************************)
(* Error messages used as inputs                                           *)
(***************************************************************************)
M_Timeout     == <<"T","i","m","e","o","u","t">>
M_AssertTime  == <<"a","s","s","e","r","t","i","o","n"," ","T","I","M","E","O","U","T">>
M_NoSuch      == <<"N","o","S","u","c","h","E","l","e","m","e","n","t">>
M_NotFound    == <<"E","l","e","m","e","n","t"," ","n","o","t"," ","f","o","u","n","d">>
M_NoSuchAssert == <<"n","o","s","u","c","h","e","l","e","m","e","n","t"," ",
                    "A","s","s","e","r","t","i","o","n">>
M_Assertion   == <<"A","s","s","e","r","t","i","o","n","E","r","r","o","r">>
M_Boom        == <<"b","o","o","m">>
M_TimeOut     == <<"t","i","m","e"," ","o","u","t">>

Messages == {M_Timeout, M_AssertTime, M_NoSuch, M_NotFound, M_NoSuchAssert,
             M_Assertion, M_Boom, M_TimeOut}

(***************************************************************************)
(* TestEvent (log_parser.py)                                               *)
(***************************************************************************)
TestEvent(id, ts, name, cls, lvl, st, msg, stack) ==
    [event_id |-> id, timestamp |-> ts, test_id |-> id, test_name |-> name,
     suite |-> "Suite", class_name |-> cls, level |-> lvl, status |-> st,
     message |-> msg, stacktrace |-> stack, duration_ms |-> 0]

\* variant: the level is not looked at
is_failure_StatusOnly(e) == e.status = "FAILED"

\* TestEvent.is_failure
is_failure(e) == e.status = "FAILED" /\ e.level = "ERROR"

\* TestEvent.to_embedding_text: the text parts, the stacktrace cut to its
\* first STACK_LINES lines and present only when the stacktrace is truthy
to_embedding_text(e) ==
    [test_name  |-> e.test_name,
     class_name |-> e.class_name,
     suite      |-> e.suite,
     message    |-> e.message,
     stacktrace |-> IF e.stacktrace # << >>
                    THEN SubSeq(e.stacktrace, 1, Min(STACK_LINES, Len(e.stacktrace)))
                    ELSE << >>]

Stack11a == <<"l1","l2","l3","l4","l5","l6","l7","l8","l9","l10","at A">>
Stack11b == <<"l1","l2","l3","l4","l5","l6","l7","l8","l9","l10","at B">>

\* The events a log can hold.  E1 and E2 are two failures of the same test
\* whose stacktraces differ only after line 10; E3 is a failure of another
\* test; E4..E6 are not failures.
E1 == TestEvent("e1", "t1", "testA", "ClassA", "ERROR", "FAILED", M_Timeout, Stack11a)
E2 == TestEvent("e2", "t2", "testA", "ClassA", "ERROR", "FAILED", M_Timeout, Stack11b)
E3 == TestEvent("e3", "t3", "testB", "ClassB", "ERROR", "FAILED", M_Boom, << >>)
E4 == TestEvent("e4", "t4", "testC", "ClassA", "INFO",  "PASSED", M_Boom, << >>)
E5 == TestEvent("e5", "t5", "testA", "ClassA", "INFO",  "STARTED", M_Boom, << >>)
E6 == TestEvent("e6", "t6", "testB", "ClassB", "WARN",  "FAILED", M_Assertion, << >>)
\* the event api.py builds for a request to analyse (test testQ of class
\* ClassQ, no stacktrace): always a failure, of suite "Query"
Q1 == [TestEvent("query", "", "testQ", "ClassQ", "ERROR", "FAILED", M_AssertTime, << >>)
          EXCEPT !.test_id = "ClassQ.testQ", !.suite = "Query"]

EventPool == <<E1, E2, E3, E4, E5, E6>>
\* the events a caller hands to analyze_failure, in the log or not
AnalyzeEvents == {E1, E3, E4, E6, Q1}

\* the event logs: the subsequences of EventPool of at most MaxEvents events
RECURSIVE Pick(_, _)
Pick(S, i) == IF i > Len(EventPool) THEN << >>
              ELSE IF i \in S THEN <<EventPool[i]>> \o Pick(S, i + 1)
              ELSE Pick(S, i + 1)
Logs == {Pick(S, 1) : S \in {T \in SUBSET (1..Len(EventPool)) : Cardinality(T) <= MaxEvents}}

\* the texts the embedding model is applied to
Texts == <<to_embedding_text(E1), to_embedding_text(E3), to_embedding_text(Q1)>>
NTexts == Len(Texts)
\* the cosines two different texts can have: below the default threshold,
\* on it, and above the recurring score
ScoreLevels == {29, 30, 86}


(***************************************************************************)
(* EmbeddingService.encode_single and the cosine score of the index        *)
(***************************************************************************)
\* the vector of a text: the embedding is a function of the text alone
encode_single(text) == CHOOSE v \in 1..NTexts : Texts[v] = text

\* the similarity tables an embedding model can realise: symmetric, and a
\* normalised vector has cosine 1.0 with itself (and only with itself)
TextPairs == {p \in (1..NTexts) \X (1..NTexts) : p[1] < p[2]}
CosTable(f) ==
    [a \in 1..NTexts |-> [b \in 1..NTexts |->
        IF a = b THEN 100 ELSE IF a < b THEN f[<<a, b>>] ELSE f[<<b, a>>]]]
\* the tables of the runs: the two log texts take every level, and with it
\* the query text of Q1 takes each of the other two levels against them
Rotate(l) == IF l = 29 THEN 30 ELSE IF l = 30 THEN 86 ELSE 29
CosTables == {CosTable([p \in TextPairs |->
                            IF p = <<1, 2>> THEN l
                            ELSE IF p = <<1, 3>> THEN Rotate(l)
                            ELSE Rotate(Rotate(l))]) : l \in ScoreLevels}

(***************************************************************************)
(* VectorStore (vector_store.py); the collection is the sequence of its    *)
(* points in insertion order                                               *)
(***************************************************************************)
\* the payload index_failure stores with a point
Payload(e, text) ==
    [event_id |-> e.event_id, test_id |-> e.test_id, test_name |-> e.test_name,
     class_name |-> e.class_name, suite |-> e.suite, message |-> e.message,
     stacktrace |-> e.stacktrace, timestamp |-> e.timestamp,
     duration_ms |-> e.duration_ms, embedding_text |-> text]

\* variant: the key is derived from the event
point_id_FromEvent(e, fresh) == e.event_id

\* point_id = str(uuid.uuid4()): a key no earlier point has
point_id(e, fresh) == fresh

\* client.upsert: replace the point that has this id, else append
upsert(coll, p) ==
    IF \E i \in 1..Len(coll) : coll[i].id = p.id
    THEN [i \in 1..Len(coll) |-> IF coll[i].id = p.id THEN p ELSE coll[i]]
    ELSE Append(coll, p)

\* VectorStore.index_failure past its is_failure test: the collection after
\* the embedding and the upsert (the whole method is IndexFailureCall)
index_failure(coll, e, fresh) ==
    LET text == to_embedding_text(e)
        embedding == encode_single(text)
    IN upsert(coll, [id |-> point_id(e, fresh), vector |-> embedding,
                     payload |-> Payload(e, text)])

\* the loop of VectorStore.index_failures: the collection after the first n
\* calls of index_failure, keys drawn from fresh, fresh + 1, ...
RECURSIVE index_loop(_, _, _, _)
index_loop(coll, fs, n, fresh) ==
    IF n = 0 \/ fs = << >> THEN coll
    ELSE index_loop(index_failure(coll, Head(fs), fresh), Tail(fs), n - 1, fresh + 1)

\* [e for e in events if e.is_failure]
Failures(events) == SelectSeq(events, is_failure)

\* the outcome of a call: the value returned, or the exception raised
Returned(v) == [raised |-> FALSE, value |-> v]
Raised(e)   == [raised |-> TRUE, error |-> e]

\* variant: the test looks at the status only
IndexFailureCall_StatusOnly(coll, e, fresh) ==
    IF e.status # "FAILED"
    THEN [coll |-> coll, used |-> 0, embedded |-> FALSE,
          out |-> Raised("ValueError")]
    ELSE [coll |-> index_failure(coll, e, fresh), used |-> 1, embedded |-> TRUE,
          out |-> Returned(point_id(e, fresh))]

\* VectorStore.index_failure(event), the whole method: ValueError before
\* anything else when the event is not a failure, else the point is written
\* and its key returned.  used: keys drawn; embedded: encode_single ran.
IndexFailureCall(coll, e, fresh) ==
    IF ~is_failure(e)
    THEN [coll |-> coll, used |-> 0, embedded |-> FALSE,
          out |-> Raised("ValueError")]
    ELSE [coll |-> index_failure(coll, e, fresh), used |-> 1, embedded |-> TRUE,
          out |-> Returned(point_id(e, fresh))]

\* variant: the size of the collection is returned
indexed_count_Total(coll, failures) == Len(coll)

\* VectorStore.index_failures: what it returns, coll being the collection
\* after its loop
indexed_count(coll, failures) == Len(failures)

\* variant: the collection is emptied before the batch is indexed
index_failures_Recreating(coll, given, fault, fresh) ==
    LET failures == SelectSeq(given, is_failure)
        done == IF fault = 0 THEN Len(failures) ELSE fault - 1
        after == index_loop(<< >>, failures, done, fresh)
    IN [coll |-> after,
        used |-> done,
        out  |-> IF fault = 0 THEN Returned(indexed_count(after, failures))
                 ELSE Raised("BackendError")]

\* VectorStore.index_failures(given), whose fault-th call of index_failure
\* raises in the embedding or in the upsert (fault = 0: none raises): the
\* collection it leaves, the keys it used, and its outcome
index_failures(coll, given, fault, fresh) ==
    LET failures == SelectSeq(given, is_failure)
        done == IF fault = 0 THEN Len(failures) ELSE fault - 1
        after == index_loop(coll, failures, done, fresh)
    IN [coll |-> after,
        used |-> done,
        out  |-> IF fault = 0 THEN Returned(indexed_count(after, failures))
                 ELSE Raised("BackendError")]

\* client.query_points(query, limit, score_threshold) under Distance.COSINE:
\* the points scoring at least the threshold, best first (equal scores in
\* insertion order), cut to limit.  hits is the sequence of [score, payload].
RECURSIVE InsertHit(_, _)
InsertHit(sorted, h) ==
    IF sorted = << >> THEN <<h>>
    ELSE IF Head(sorted).score >= h.score
         THEN <<Head(sorted)>> \o InsertHit(Tail(sorted), h)
         ELSE <<h>> \o sorted

RECURSIVE SortHits(_)
SortHits(hits) ==
    IF hits = << >> THEN << >>
    ELSE InsertHit(SortHits(SubSeq(hits, 1, Len(hits) - 1)), hits[Len(hits)])

\* variant: no candidate is filtered out
AboveThreshold_KeepAll(hits, threshold) == hits

AboveThreshold(hits, threshold) ==
    LET Keep(h) == h.score >= threshold IN SelectSeq(hits, Keep)

query_points(hits, limit, score_threshold) ==
    LET ranked == SortHits(AboveThreshold(hits, score_threshold))
    IN SubSeq(ranked, 1, Min(limit, Len(ranked)))

\* top_k = top_k or settings.TOP_K_RESULTS  (None and 0 are falsy)
EffectiveTopK(top_k) ==
    IF top_k = None \/ top_k = Some(0) THEN TOP_K_RESULTS ELSE top_k[1]

\* variant: the caller's threshold is dropped
EffectiveThreshold_Dropped(threshold) == SIMILARITY_THRESHOLD

\* threshold = threshold or settings.SIMILARITY_THRESHOLD
EffectiveThreshold(threshold) ==
    IF threshold = None \/ threshold = Some(0) THEN SIMILARITY_THRESHOLD ELSE threshold[1]

\* the result row search_similar builds from a hit
ResultRow(h) ==
    [score |-> h.score, test_name |-> h.payload.test_name,
     class_name |-> h.payload.class_name, message |-> h.payload.message,
     stacktrace |-> h.payload.stacktrace, timestamp |-> h.payload.timestamp]

\* VectorStore.search_similar over the scored candidates
search_hits(hits, top_k, threshold) ==
    LET found == query_points(hits, EffectiveTopK(top_k), EffectiveThreshold(threshold))
    IN [i \in 1..Len(found) |-> ResultRow(found[i])]

\* the candidates of a query: every point with its cosine to the query
Scored(coll, c, query_embedding) ==
    [i \in 1..Len(coll) |->
        [score |-> c[query_embedding][coll[i].vector], payload |-> coll[i].payload]]

\* variant: entries with the query's own text are left out of the result
search_similar_ExcludingSelf(coll, c, query_text, top_k, threshold) ==
    search_hits(SelectSeq(Scored(coll, c, encode_single(query_text)),
                          LAMBDA h : h.payload.embedding_text # query_text),
                top_k, threshold)

\* VectorStore.search_similar
search_similar(coll, c, query_text, top_k, threshold) ==
    search_hits(Scored(coll, c, encode_single(query_text)), top_k, threshold)

\* VectorStore.get_collection_info
get_collection_info(coll) == [name |-> "test_failures", points_count |-> Len(coll)]


(***************************************************************************)
(* AnalysisService (analysis_service.py): the pure parts                   *)
(***************************************************************************)
\* Python floats (IEEE 754 binary64, round to nearest, ties to even).  A
\* positive float is [m |-> bits, e |-> n]: MANT binary digits, the most
\* significant first and equal to 1, of value (the number m spells) * 2^e;
\* FZero is 0.0.  Every value met here is positive and normal.  Whole
\* numbers too long for one machine word are added, multiplied and divided
\* in digits of base BASE = 2^LIMB, the most significant first.
MANT == 53
LIMB == 15
BASE == 2 ^ LIMB
FZero == [m |-> << >>, e |-> 0]
Zeros(n) == [i \in 1..n |-> 0]

\* the base-BASE digits of the number the binary digits b spell
ToLimbs(b) ==
    LET L == (Len(b) + LIMB - 1) \div LIMB
        z == L * LIMB - Len(b)
        bit(j) == IF j <= z THEN 0 ELSE b[j - z]
    IN [i \in 1..L |->
            SumSeq([k \in 1..LIMB |-> bit((i - 1) * LIMB + k) * 2 ^ (LIMB - k)])]

\* the binary digits of the number the base-BASE digits l spell
ToBits(l) ==
    [j \in 1..(LIMB * Len(l)) |->
        (l[(j - 1) \div LIMB + 1] \div 2 ^ (LIMB - 1 - ((j - 1) % LIMB))) % 2]

\* long division of the digits l[i..] by q, r carried in: quotient, remainder
RECURSIVE DivLimbs(_, _, _, _, _)
DivLimbs(l, i, r, q, acc) ==
    IF i > Len(l) THEN [quot |-> acc, rem |-> r]
    ELSE DivLimbs(l, i + 1, (r * BASE + l[i]) % q, q,
                  Append(acc, (r * BASE + l[i]) \div q))

\* the digits of a + b, from the p-th digit before the last on, c carried in
RECURSIVE AddLimbs(_, _, _, _, _)
AddLimbs(a, b, p, c, acc) ==
    IF p >= Len(a) /\ p >= Len(b) THEN <<c>> \o acc
    ELSE LET t == (IF p < Len(a) THEN a[Len(a) - p] ELSE 0)
                  + (IF p < Len(b) THEN b[Len(b) - p] ELSE 0) + c
         IN AddLimbs(a, b, p + 1, t \div BASE, <<t % BASE>> \o acc)

\* the digits of a * k, for k < BASE
RECURSIVE MulLimbs(_, _, _, _, _)
MulLimbs(a, k, p, c, acc) ==
    IF p >= Len(a) THEN <<c>> \o acc
    ELSE LET t == a[Len(a) - p] * k + c
         IN MulLimbs(a, k, p + 1, t \div BASE, <<t % BASE>> \o acc)

\* the MANT binary digits of m + 1, for m not all ones
Inc(m) ==
    LET k == CHOOSE i \in 1..Len(m) : m[i] = 0 /\ \A j \in (i + 1)..Len(m) : m[j] = 1
    IN [i \in 1..Len(m) |-> IF i < k THEN m[i] ELSE IF i = k THEN 1 ELSE 0]

\* the float nearest to (the number b spells) * 2^e / q, for 1 <= q <= 128:
\* the quotient is developed to more than MANT digits, and the digits after
\* the MANT-th and the remainder decide the rounding
Round(b, e, q) ==
    IF \A i \in 1..Len(b) : b[i] = 0 THEN FZero
    ELSE LET lead == CHOOSE i \in 1..Len(b) : b[i] = 1 /\ \A j \in 1..(i - 1) : b[j] = 0
             n == Len(b) - lead + 1
             pad == IF n >= MANT + 8 THEN 0 ELSE MANT + 8 - n
             D == DivLimbs(ToLimbs(b \o Zeros(pad)), 1, 0, q, << >>)
             Q == ToBits(D.quot)
             f == CHOOSE i \in 1..Len(Q) : Q[i] = 1 /\ \A j \in 1..(i - 1) : Q[j] = 0
             L == Len(Q) - f + 1
             m == SubSeq(Q, f, f + MANT - 1)
             up == /\ Q[f + MANT] = 1
                   /\ \/ m[MANT] = 1
                      \/ D.rem # 0
                      \/ \E i \in (f + MANT + 1)..Len(Q) : Q[i] = 1
         IN IF up /\ \A i \in 1..MANT : m[i] = 1
            THEN [m |-> <<1>> \o Zeros(MANT - 1), e |-> e - pad + L - MANT + 1]
            ELSE [m |-> IF up THEN Inc(m) ELSE m, e |-> e - pad + L - MANT]

\* float + float
FAdd(x, y) ==
    IF x = FZero THEN y
    ELSE IF y = FZero THEN x
    ELSE LET e0 == Min(x.e, y.e)
         IN Round(ToBits(AddLimbs(ToLimbs(x.m \o Zeros(x.e - e0)),
                                  ToLimbs(y.m \o Zeros(y.e - e0)), 0, 0, << >>)),
                  e0, 1)

\* float / int and float * int (the int is converted exactly)
FDivInt(x, n) == IF x = FZero THEN FZero ELSE Round(x.m, x.e, n)
FMulInt(x, k) == IF x = FZero THEN FZero
                 ELSE Round(ToBits(MulLimbs(ToLimbs(x.m), k, 0, 0, << >>)), x.e, 1)

\* int / int (true division), and the float a literal of h hundredths denotes
TrueDiv(a, n) == Round(ToBits(<<a>>), 0, n)
Hundredths(h) == Round(ToBits(<<h>>), 0, 100)

\* x > y and x == y on floats that are not negative
FGt(x, y) ==
    IF x = FZero THEN FALSE
    ELSE IF y = FZero THEN TRUE
    ELSE IF x.e # y.e THEN x.e > y.e
    ELSE \E i \in 1..MANT : /\ x.m[i] > y.m[i]
                            /\ \A j \in 1..(i - 1) : x.m[j] = y.m[j]
FEq(x, y) == x = y

\* the scores of the candidates of a direct call: around the default
\* threshold, around the recurring score, above the very-high average, and
\* the maximum
PureScores == {29, 30, 85, 86, 95, 100}

\* the floats of the scores, a score of h hundredths being the float that
\* the literal h/100 denotes; those of the scores in use are computed once
\* (f @@ << >> is f, held as a table of values)
FloatOf == [h \in ScoreLevels \cup PureScores \cup {VERY_HIGH_AVG} |-> Hundredths(h)] @@ << >>
ScoreFloat(h) == IF h \in DOMAIN FloatOf THEN FloatOf[h] ELSE Hundredths(h)

\* sum(scores): the built-in's left-to-right additions, from 0
RECURSIVE FSum(_, _, _)
FSum(scores, i, acc) ==
    IF i > Len(scores) THEN acc
    ELSE FSum(scores, i + 1, FAdd(acc, ScoreFloat(scores[i])))

\* sum(scores) / len(scores) of a non-empty list
Mean(scores) == FDivInt(FSum(scores, 1, FZero), Len(scores))

\* len(failures) / len(events) * 100
Rate(n_failures, n_events) == FMulInt(TrueDiv(n_failures, n_events), 100)

\* the lists of scores a report is built from (a result list is sorted,
\* highest score first): at most TOP_K_RESULTS scores of index entries, or
\* at most MaxHits scores of candidates; their means, and the rates of the
\* logs, are computed once
ResultLists(S, n) ==
    {l \in UNION {[1..k -> S] : k \in 1..n} :
        \A i \in 1..(Len(l) - 1) : l[i] >= l[i + 1]}
ScoreLists == ResultLists({h \in ScoreLevels : h >= SIMILARITY_THRESHOLD} \cup {100}, TOP_K_RESULTS)
              \cup ResultLists(PureScores, MaxHits)
MeanOf == [l \in ScoreLists |-> Mean(l)] @@ << >>
RateOf == [c \in {d \in (0..MaxEvents) \X (1..MaxEvents) : d[1] <= d[2]}
               |-> Rate(c[1], c[2])] @@ << >>

\* avg_similarity of _extract_patterns
avg_similarity(scores) ==
    IF scores \in DOMAIN MeanOf THEN MeanOf[scores] ELSE Mean(scores)

\* failure_rate of get_summary: ... if events else 0
failure_rate(n_failures, n_events) ==
    IF n_events = 0 THEN FZero
    ELSE IF <<n_failures, n_events>> \in DOMAIN RateOf THEN RateOf[<<n_failures, n_events>>]
    ELSE Rate(n_failures, n_events)


\* dict(Counter(names).most_common(n)): the n most frequent names, equal
\* counts in order of first occurrence, each with its count
Occurrences(names, x) == Cardinality({i \in 1..Len(names) : names[i] = x})
FirstAt(names, x) == CHOOSE i \in 1..Len(names) :
                        names[i] = x /\ \A j \in 1..(i - 1) : names[j] # x
Rank(names, x) ==
    Cardinality({names[i] : i \in {j \in 1..Len(names) :
        \/ Occurrences(names, names[j]) > Occurrences(names, x)
        \/ /\ Occurrences(names, names[j]) = Occurrences(names, x)
           /\ FirstAt(names, names[j]) < FirstAt(names, x)}})

\* variant: every name is counted once
most_common_Once(names, n) ==
    [x \in {names[i] : i \in {j \in 1..Len(names) : Rank(names, names[j]) < n}}
        |-> 1]

most_common(names, n) ==
    [x \in {names[i] : i \in {j \in 1..Len(names) : Rank(names, names[j]) < n}}
        |-> Occurrences(names, x)]

\* variant: recurring from a score of 85
_extract_patterns_AtLeast85(event, similar) ==
    IF similar = << >>
    THEN [recurring |-> FALSE, frequency |-> 0]
    ELSE [recurring |-> \E i \in 1..Len(similar) : similar[i].score >= RECURRING_SCORE,
          frequency |-> Len(similar),
          affected_tests |->
              most_common([i \in 1..Len(similar) |-> similar[i].test_name], MOST_COMMON),
          affected_classes |->
              most_common([i \in 1..Len(similar) |-> similar[i].class_name], MOST_COMMON),
          avg_similarity |->
              avg_similarity([i \in 1..Len(similar) |-> similar[i].score])]

\* variant: recurring is decided by the last, lowest-scoring match alone
_extract_patterns_FirstOnly(event, similar) ==
    IF similar = << >>
    THEN [recurring |-> FALSE, frequency |-> 0]
    ELSE [recurring |-> similar[Len(similar)].score > RECURRING_SCORE,
          frequency |-> Len(similar),
          affected_tests |->
              most_common([i \in 1..Len(similar) |-> similar[i].test_name], MOST_COMMON),
          affected_classes |->
              most_common([i \in 1..Len(similar) |-> similar[i].class_name], MOST_COMMON),
          avg_similarity |->
              avg_similarity([i \in 1..Len(similar) |-> similar[i].score])]

\* AnalysisService._extract_patterns
_extract_patterns(event, similar) ==
    IF similar = << >>
    THEN [recurring |-> FALSE, frequency |-> 0]
    ELSE [recurring |-> Len(similar) > 0
                        /\ \E i \in 1..Len(similar) : similar[i].score > RECURRING_SCORE,
          frequency |-> Len(similar),
          affected_tests |->
              most_common([i \in 1..Len(similar) |-> similar[i].test_name], MOST_COMMON),
          affected_classes |->
              most_common([i \in 1..Len(similar) |-> similar[i].class_name], MOST_COMMON),
          avg_similarity |->
              avg_similarity([i \in 1..Len(similar) |-> similar[i].score])]

\* the messages of the recommendation; the recurring warning cites a count
R_Recurring(n) == <<"RECURRING", n>>
R_VeryHigh     == <<"VERY_HIGH_SIMILARITY">>
R_Timeout      == <<"TIMEOUT">>
R_NotFound     == <<"ELEMENT_NOT_FOUND">>
R_Assertion    == <<"ASSERTION">>
R_Fallback     == <<"REVIEW_STACKTRACE">>

\* variant: three independent ifs
TextGuidance_AllIfs(message) ==
    LET msg == Lower(message) IN
    (IF Contains(msg, S_timeout) THEN <<R_Timeout>> ELSE << >>)
    \o (IF Contains(msg, S_element_nf) \/ Contains(msg, S_nosuchelement)
        THEN <<R_NotFound>> ELSE << >>)
    \o (IF Contains(msg, S_assertion) THEN <<R_Assertion>> ELSE << >>)

\* the if / elif / elif chain over the lower-cased message
TextGuidance(message) ==
    LET msg == Lower(message) IN
    IF Contains(msg, S_timeout) THEN <<R_Timeout>>
    ELSE IF Contains(msg, S_element_nf) \/ Contains(msg, S_nosuchelement) THEN <<R_NotFound>>
    ELSE IF Contains(msg, S_assertion) THEN <<R_Assertion>>
    ELSE << >>

\* variant: the warning is given from an average of 0.9
VeryHigh_From90(patterns) ==
    /\ "avg_similarity" \in DOMAIN patterns
    /\ \/ FGt(patterns.avg_similarity, ScoreFloat(VERY_HIGH_AVG))
       \/ FEq(patterns.avg_similarity, ScoreFloat(VERY_HIGH_AVG))

\* patterns.get("avg_similarity", 0) > 0.9
VeryHigh(patterns) ==
    /\ "avg_similarity" \in DOMAIN patterns
    /\ FGt(patterns.avg_similarity, ScoreFloat(VERY_HIGH_AVG))

\* variant: the fallback is appended unconditionally
_generate_recommendation_AlwaysFallback(event, similar, patterns) ==
    (IF patterns.recurring THEN <<R_Recurring(patterns.frequency)>> ELSE << >>)
    \o (IF VeryHigh(patterns) THEN <<R_VeryHigh>> ELSE << >>)
    \o TextGuidance(event.message)
    \o <<R_Fallback>>

\* AnalysisService._generate_recommendation: the list that " ".join joins
_generate_recommendation(event, similar, patterns) ==
    LET recommendations ==
            (IF patterns.recurring THEN <<R_Recurring(patterns.frequency)>> ELSE << >>)
            \o (IF VeryHigh(patterns) THEN <<R_VeryHigh>> ELSE << >>)
            \o TextGuidance(event.message)
    IN IF recommendations = << >> THEN <<R_Fallback>> ELSE recommendations

\* the report analyze_failure returns for a failure event
Report(event, similar) ==
    LET patterns == _extract_patterns(event, similar) IN
    [test_name |-> event.test_name,
     class_name |-> event.class_name,
     error_message |-> event.message,
     similar_failures |-> similar,
     patterns |-> patterns,
     recommendation |-> _generate_recommendation(event, similar, patterns)]

NotAFailure == [error |-> "Not a failure event"]

CountStatus(events, st) == Cardinality({i \in 1..Len(events) : events[i].status = st})

\* variant: passed is what is left after the failures and the started
LoadCounts_PassedIsRest(events, n_indexed) ==
    [total_events |-> Len(events),
     failures_indexed |-> n_indexed,
     passed |-> Len(events) - n_indexed - CountStatus(events, "STARTED"),
     started |-> CountStatus(events, "STARTED")]

\* the counts load_and_index returns; n_indexed is what index_failures
\* returned
LoadCounts(events, n_indexed) ==
    [total_events |-> Len(events),
     failures_indexed |-> n_indexed,
     passed |-> CountStatus(events, "PASSED"),
     started |-> CountStatus(events, "STARTED")]

\* variant: the rate is the fraction of failures, not a percentage
get_summary_Fraction(events, coll) ==
    LET failures == Failures(events) IN
    [total_tests |-> Cardinality({i \in 1..Len(events) :
                                    events[i].status \in {"PASSED", "FAILED"}}),
     total_failures |-> Len(failures),
     failure_rate |-> IF events = << >> THEN FZero
                      ELSE TrueDiv(Len(failures), Len(events)),
     failures_by_class |->
         most_common([i \in 1..Len(failures) |-> failures[i].class_name], Len(failures) + 1),
     failures_by_test |->
         most_common([i \in 1..Len(failures) |-> failures[i].test_name], Len(failures) + 1),
     index_info |-> get_collection_info(coll)]

\* AnalysisService.get_summary
get_summary(events, coll) ==
    LET failures == Failures(events) IN
    [total_tests |-> Cardinality({i \in 1..Len(events) :
                                    events[i].status \in {"PASSED", "FAILED"}}),
     total_failures |-> Len(failures),
     failure_rate |-> failure_rate(Len(failures), Len(events)),
     failures_by_class |->
         most_common([i \in 1..Len(failures) |-> failures[i].class_name], Len(failures) + 1),
     failures_by_test |->
         most_common([i \in 1..Len(failures) |-> failures[i].test_name], Len(failures) + 1),
     index_info |-> get_collection_info(coll)]


(***************************************************************************)
(* The engine: one AnalysisService over one event log                      *)
(***************************************************************************)
VARIABLES
    events,        \* parser.get_all_events(): the events of the log
    cos,           \* the cosine table of the embedding model
    indexed,       \* AnalysisService._indexed
    index,         \* the points of the collection, in insertion order
    uuids,         \* how many uuid4 keys have been generated
    n_ok,          \* load_and_index runs that returned
    n_failed,      \* load_and_index runs that raised
    call,          \* the last call: operation, arguments, state before it
    ret,           \* its outcome: raised or not, and the value returned
    first_counts,  \* << >>, or <<c>>: c the counts of the first run that returned
    last_summary,  \* << >>, or <<s>>: s the last summary since the last run
    arg,           \* the input of a direct call of a pure function (or None)
    res,           \* None, or <<r>>: r the value that call returned
    _instance,     \* EmbeddingService._instance: 0 (None) or the object it names
    _model,        \* _model[i]: object i holds a loaded model (self._model)
    loads,         \* how many times SentenceTransformer(...) was called
    imported,      \* the import of embedding_service.py has finished
    pc,            \* where each thread stands in EmbeddingService()
    obj,           \* the object __new__ returned to each thread
    flag,          \* the outcome of each thread's last `is None` test
    got,           \* the objects each thread's constructions yielded
    tpc,           \* where each thread stands in find_similar_failures
    tdone,         \* the failures each thread's running load has indexed
    ncalls         \* the find_similar_failures calls each thread has finished

embvars == <<_instance, _model, loads, imported, pc, obj, flag, got>>

lazyvars == <<tpc, tdone, ncalls>>

vars == <<events, cos, indexed, index, uuids, n_ok, n_failed, call, ret,
          first_counts, last_summary, arg, res, embvars, lazyvars>>

\* the threads that construct EmbeddingService: the one that imports the
\* module (its construction is line 110) and the callers
Importer == 0
Callers == 1..EmbThreads
Threads == {Importer} \cup Callers

\* the threads that call one AnalysisService
LazyCallers == 1..LazyThreads

\* no call of find_similar_failures is in progress
LazyIdle ==
    /\ tpc = [t \in LazyCallers |-> "idle"]
    /\ tdone = [t \in LazyCallers |-> 0]
    /\ ncalls = [t \in LazyCallers |-> 0]

\* the service once `embedding_service = EmbeddingService()` has run
EmbLoaded ==
    /\ _instance = 1
    /\ _model = <<TRUE>>
    /\ loads = 1
    /\ imported = TRUE
    /\ pc = [t \in Threads |-> "idle"]
    /\ obj = [t \in Threads |-> IF t = Importer THEN 1 ELSE 0]
    /\ flag = [t \in Threads |-> FALSE]
    /\ got = [t \in Threads |-> IF t = Importer THEN <<1>> ELSE << >>]

\* the texts a caller of find_similar_failures searches for: those of the
\* failures E1 and E3
QueryTexts == {to_embedding_text(E1), to_embedding_text(E3)}
\* the top_k values a caller passes: 0..MaxTopK, and the default of the
\* signature
TopKs == (0..MaxTopK) \cup {TOP_K_RESULTS}

\* the events no embedding or backend call is made for
NotFailedError(e) == e.status # "FAILED" \/ e.level # "ERROR"

Init ==
    /\ events \in Logs
    /\ cos \in CosTables
    /\ indexed = FALSE
    /\ index = << >>
    /\ uuids = 0
    /\ n_ok = 0
    /\ n_failed = 0
    /\ call = [op |-> "init"]
    /\ ret = Returned(None)
    /\ first_counts = << >>
    /\ last_summary = << >>
    /\ arg = None
    /\ res = None
    /\ EmbLoaded
    /\ LazyIdle

\* variant: a raise inside the batch is caught and the counts are returned
load_and_index_Swallowed(fault) ==
    LET failures == Failures(events)
        I == index_failures(index, failures, fault, uuids + 1)
    IN [index   |-> I.coll,
        uuids   |-> uuids + I.used,
        indexed |-> TRUE,
        out     |-> Returned(LoadCounts(events, I.used))]

\* AnalysisService.load_and_index, whose fault-th index_failure raises
\* (fault = 0: none does): its effect on the engine and its outcome
load_and_index(fault) ==
    LET failures == Failures(events)
        I == index_failures(index, failures, fault, uuids + 1)
    IN [index   |-> I.coll,
        uuids   |-> uuids + I.used,
        indexed |-> IF I.out.raised THEN indexed ELSE TRUE,
        out     |-> IF I.out.raised THEN I.out
                    ELSE Returned(LoadCounts(events, I.out.value))]

Faults == 0..Len(Failures(events))

\* variant: the search runs on the index as it was before the lazy load
find_similar_failures_SearchFirst(error_message, top_k, fault, qfault) ==
    LET lazy == ~indexed
        found == search_similar(index, cos, error_message, Some(top_k), None)
        L == IF lazy THEN load_and_index(fault)
             ELSE [index |-> index, uuids |-> uuids, indexed |-> indexed,
                   out |-> Returned(None)]
    IN [index   |-> L.index,
        uuids   |-> L.uuids,
        indexed |-> L.indexed,
        loaded  |-> lazy,
        counts  |-> L.out,
        out     |-> IF L.out.raised THEN L.out
                    ELSE IF qfault THEN Raised("BackendError")
                    ELSE Returned(found)]

\* AnalysisService.find_similar_failures: lazy load_and_index, then the
\* search; qfault: the query embedding or query_points raises
find_similar_failures(error_message, top_k, fault, qfault) ==
    LET lazy == ~indexed
        L == IF lazy THEN load_and_index(fault)
             ELSE [index |-> index, uuids |-> uuids, indexed |-> indexed,
                   out |-> Returned(None)]
    IN [index   |-> L.index,
        uuids   |-> L.uuids,
        indexed |-> L.indexed,
        loaded  |-> lazy,
        counts  |-> L.out,
        out     |-> IF L.out.raised THEN L.out
                    ELSE IF qfault THEN Raised("BackendError")
                    ELSE Returned(search_similar(L.index, cos, error_message, Some(top_k), None))]

\* variant: the analysed failure is added to the index
analyze_failure_Indexing(event, fault, qfault) ==
    IF ~is_failure(event)
    THEN [index |-> index, uuids |-> uuids, indexed |-> indexed, loaded |-> FALSE,
          counts |-> Returned(None), out |-> Returned(NotAFailure)]
    ELSE LET F == find_similar_failures(to_embedding_text(event), TOP_K_RESULTS,
                                        fault, qfault)
         IN [F EXCEPT !.out = IF F.out.raised THEN F.out
                              ELSE Returned(Report(event, F.out.value)),
                      !.index = IF F.out.raised THEN F.index
                                ELSE index_failure(F.index, event, F.uuids + 1),
                      !.uuids = IF F.out.raised THEN F.uuids ELSE F.uuids + 1]

\* variant: the ten best matches are asked for
analyze_failure_TopTen(event, fault, qfault) ==
    IF ~is_failure(event)
    THEN [index |-> index, uuids |-> uuids, indexed |-> indexed, loaded |-> FALSE,
          counts |-> Returned(None), out |-> Returned(NotAFailure)]
    ELSE LET F == find_similar_failures(to_embedding_text(event), 2 * TOP_K_RESULTS,
                                        fault, qfault)
         IN [F EXCEPT !.out = IF F.out.raised THEN F.out
                              ELSE Returned(Report(event, F.out.value))]

\* AnalysisService.analyze_failure
analyze_failure(event, fault, qfault) ==
    IF ~is_failure(event)
    THEN [index |-> index, uuids |-> uuids, indexed |-> indexed, loaded |-> FALSE,
          counts |-> Returned(None), out |-> Returned(NotAFailure)]
    ELSE LET F == find_similar_failures(to_embedding_text(event), TOP_K_RESULTS,
                                        fault, qfault)
         IN [F EXCEPT !.out = IF F.out.raised THEN F.out
                              ELSE Returned(Report(event, F.out.value))]

\* bookkeeping of a load_and_index run with outcome out
Ran(out) ==
    /\ n_ok' = IF out.raised THEN n_ok ELSE n_ok + 1
    /\ n_failed' = IF out.raised THEN n_failed + 1 ELSE n_failed
    /\ first_counts' = IF ~out.raised /\ first_counts = << >>
                       THEN <<out.value>> ELSE first_counts
    /\ last_summary' = << >>

NoRun == UNCHANGED <<n_ok, n_failed, first_counts, last_summary>>

Before == [indexed |-> indexed, size |-> Len(index)]

LoadAndIndex ==
    /\ n_ok + n_failed < MaxLoads
    /\ \E fault \in Faults :
        LET L == load_and_index(fault) IN
        /\ index' = L.index
        /\ uuids' = L.uuids
        /\ indexed' = L.indexed
        /\ call' = [op |-> "load_and_index", before |-> Before, fault |-> fault]
        /\ ret' = L.out
        /\ Ran(L.out)
    /\ UNCHANGED <<events, cos, arg, res, embvars, lazyvars>>

\* the effect of a call that went through find_similar_failures
Apply(F) ==
    /\ index' = F.index
    /\ uuids' = F.uuids
    /\ indexed' = F.indexed
    /\ ret' = F.out
    /\ IF F.loaded THEN Ran(F.counts) ELSE NoRun

\* find_similar_failures(q, k); a failing query is tried with the default
\* top_k only, the failure not depending on top_k
FindSimilar ==
    /\ indexed \/ n_ok + n_failed < MaxLoads
    /\ \E q \in QueryTexts, k \in TopKs :
       \E qfault \in (IF k = TOP_K_RESULTS THEN BOOLEAN ELSE {FALSE}),
          fault \in (IF indexed THEN {0} ELSE Faults) :
        /\ Apply(find_similar_failures(q, k, fault, qfault))
        /\ call' = [op |-> "find_similar", before |-> Before,
                    query_text |-> q, top_k |-> k,
                    fault |-> fault, qfault |-> qfault]
    /\ UNCHANGED <<events, cos, arg, res, embvars, lazyvars>>

Analyze ==
    /\ indexed \/ n_ok + n_failed < MaxLoads
    /\ \E e \in AnalyzeEvents :
       \E qfault \in (IF NotFailedError(e) THEN {FALSE} ELSE BOOLEAN),
          fault \in (IF indexed \/ NotFailedError(e) THEN {0} ELSE Faults) :
        /\ Apply(analyze_failure(e, fault, qfault))
        /\ call' = [op |-> "analyze", before |-> Before, event |-> e,
                    fault |-> fault, qfault |-> qfault]
    /\ UNCHANGED <<events, cos, arg, res, embvars, lazyvars>>

Summary ==
    /\ call' = [op |-> "summary", before |-> Before, earlier |-> last_summary]
    /\ ret' = Returned(get_summary(events, index))
    /\ last_summary' = <<get_summary(events, index)>>
    /\ UNCHANGED <<events, cos, indexed, index, uuids, n_ok, n_failed, first_counts,
                   arg, res, embvars, lazyvars>>

\* the events handed to VectorStore.index_failure directly, none of them a
\* failure (failures reach it through index_failures): E1 reported at level
\* WARN, a PASSED and a STARTED event
D1 == TestEvent("d1", "t7", "testA", "ClassA", "WARN", "FAILED", M_Timeout, Stack11a)
DirectEvents == {D1, E4, E5}

\* vector_store.index_failure(e) called directly
IndexFailure ==
    /\ \E e \in DirectEvents :
        LET I == IndexFailureCall(index, e, uuids + 1) IN
        /\ index' = I.coll
        /\ uuids' = uuids + I.used
        /\ call' = [op |-> "index_failure", before |-> Before, event |-> e,
                    embedded |-> I.embedded]
        /\ ret' = I.out
    /\ UNCHANGED <<events, cos, indexed, n_ok, n_failed, first_counts, last_summary,
                   arg, res, embvars, lazyvars>>

Next == LoadAndIndex \/ FindSimilar \/ Analyze \/ Summary \/ IndexFailure

Spec == Init /\ [][Next]_vars


(***************************************************************************)
(* Direct calls of VectorStore.search_similar and of the pattern and       *)
(* recommendation functions, on inputs drawn from bounded sets             *)
(***************************************************************************)
\* the i-th candidate carries the payload of the i-th failure of EventPool
\* (cyclically)
CandidatePayload(i) ==
    LET fs == Failures(EventPool)
        e == fs[((i - 1) % Len(fs)) + 1]
    IN Payload(e, to_embedding_text(e))

\* the scored candidates of a query, in insertion order
Candidates ==
    UNION {{[i \in 1..n |-> [score |-> sc[i], payload |-> CandidatePayload(i)]] :
                sc \in [1..n -> PureScores]} : n \in 0..MaxHits}

OptTopKs == {None} \cup {Some(k) : k \in 0..MaxTopK}
OptThresholds == {None, Some(0), Some(29), Some(86)}

\* the failure event a recommendation is generated for
EventWith(message) == [E1 EXCEPT !.message = message]

PureArgs ==
    [fn : {"search_similar"}, hits : Candidates, top_k : OptTopKs,
     threshold : OptThresholds]
    \cup [fn : {"report"}, hits : Candidates, message : Messages]

InitPure ==
    /\ events = << >>
    /\ cos = CosTable([p \in TextPairs |-> 29])
    /\ indexed = FALSE
    /\ index = << >>
    /\ uuids = 0
    /\ n_ok = 0
    /\ n_failed = 0
    /\ call = [op |-> "init"]
    /\ ret = Returned(None)
    /\ first_counts = << >>
    /\ last_summary = << >>
    /\ arg \in PureArgs
    /\ res = None
    /\ EmbLoaded
    /\ LazyIdle

engine == <<events, cos, indexed, index, uuids, n_ok, n_failed, call, ret,
            first_counts, last_summary>>

\* VectorStore.search_similar(query_text, top_k, threshold) on a collection
\* whose points score arg.hits against the query
SearchSimilar ==
    /\ arg.fn = "search_similar" /\ res = None
    /\ res' = Some(search_hits(arg.hits, arg.top_k, arg.threshold))
    /\ UNCHANGED <<engine, arg, embvars, lazyvars>>

\* the report analyze_failure builds from what find_similar_failures
\* returned (top_k = 5, no threshold)
BuildReport ==
    /\ arg.fn = "report" /\ res = None
    /\ res' = Some(Report(EventWith(arg.message),
                          search_hits(arg.hits, Some(TOP_K_RESULTS), None)))
    /\ UNCHANGED <<engine, arg, embvars, lazyvars>>

NextPure == SearchSimilar \/ BuildReport

SpecPure == InitPure /\ [][NextPure]_vars


(***************************************************************************)
(* EmbeddingService (embedding_service.py): the singleton construction,    *)
(* one step for each read or write of a shared attribute                   *)
(***************************************************************************)
\* before the module is imported: no object, no model
InitEmb ==
    /\ events = << >>
    /\ cos = CosTable([p \in TextPairs |-> 29])
    /\ indexed = FALSE
    /\ index = << >>
    /\ uuids = 0
    /\ n_ok = 0
    /\ n_failed = 0
    /\ call = [op |-> "init"]
    /\ ret = Returned(None)
    /\ first_counts = << >>
    /\ last_summary = << >>
    /\ arg = None
    /\ res = None
    /\ _instance = 0
    /\ _model = << >>
    /\ loads = 0
    /\ imported = FALSE
    /\ pc = [t \in Threads |-> "idle"]
    /\ obj = [t \in Threads |-> 0]
    /\ flag = [t \in Threads |-> FALSE]
    /\ got = [t \in Threads |-> << >>]
    /\ LazyIdle

\* variant: callers can construct the class while the module-level
\* construction has not finished
CanConstruct_BeforeImport(t) ==
    IF t = Importer THEN ~imported /\ got[t] = << >>
    ELSE Len(got[t]) < MaxConstructions

\* who can call EmbeddingService(): the importing thread runs line 110 once,
\* under the import lock of the module; a caller reaches the class only
\* through the imported module
CanConstruct(t) ==
    IF t = Importer THEN ~imported /\ got[t] = << >>
    ELSE imported /\ Len(got[t]) < MaxConstructions

\* __new__: `if cls._instance is None`
NewCheck(t) ==
    /\ pc[t] = "idle" /\ CanConstruct(t)
    /\ flag' = [flag EXCEPT ![t] = (_instance = 0)]
    /\ pc' = [pc EXCEPT ![t] = "new"]
    /\ UNCHANGED <<engine, arg, res, lazyvars, _instance, _model, loads, imported, obj, got>>

\* __new__: `cls._instance = super().__new__(cls)` when the test was true
NewCreate(t) ==
    /\ pc[t] = "new"
    /\ IF flag[t]
       THEN /\ _model' = Append(_model, FALSE)
            /\ _instance' = Len(_model) + 1
       ELSE UNCHANGED <<_model, _instance>>
    /\ pc' = [pc EXCEPT ![t] = "ret"]
    /\ UNCHANGED <<engine, arg, res, lazyvars, loads, imported, obj, flag, got>>

\* __new__: `return cls._instance`
NewReturn(t) ==
    /\ pc[t] = "ret"
    /\ obj' = [obj EXCEPT ![t] = _instance]
    /\ pc' = [pc EXCEPT ![t] = "init"]
    /\ UNCHANGED <<engine, arg, res, lazyvars, _instance, _model, loads, imported, flag, got>>

\* __init__: `if self._model is None`
InitCheck(t) ==
    /\ pc[t] = "init"
    /\ flag' = [flag EXCEPT ![t] = ~_model[obj[t]]]
    /\ pc' = [pc EXCEPT ![t] = "load"]
    /\ UNCHANGED <<engine, arg, res, lazyvars, _instance, _model, loads, imported, obj, got>>

\* __init__: `self._model = SentenceTransformer(...)` when the test was
\* true; the construction then yields self, and the import ends with the
\* importing thread's construction
InitLoad(t) ==
    /\ pc[t] = "load"
    /\ IF flag[t]
       THEN /\ loads' = loads + 1
            /\ _model' = [_model EXCEPT ![obj[t]] = TRUE]
       ELSE UNCHANGED <<loads, _model>>
    /\ got' = [got EXCEPT ![t] = Append(got[t], obj[t])]
    /\ imported' = (imported \/ t = Importer)
    /\ pc' = [pc EXCEPT ![t] = "idle"]
    /\ UNCHANGED <<engine, arg, res, lazyvars, _instance, obj, flag>>

NextEmb ==
    \E t \in Threads :
        NewCheck(t) \/ NewCreate(t) \/ NewReturn(t) \/ InitCheck(t) \/ InitLoad(t)

SpecEmb == InitEmb /\ [][NextEmb]_vars


(***************************************************************************)
(* Concurrent callers of one AnalysisService: find_similar_failures run by *)
(* several threads on a service they share (dashboard.py caches one        *)
(* service for all its sessions, each of which runs in its own thread),    *)
(* one step for each read or write of _indexed and for each upsert         *)
(***************************************************************************)
InitLazy ==
    /\ events \in Logs
    /\ cos = CosTable([p \in TextPairs |-> 30])
    /\ indexed = FALSE
    /\ index = << >>
    /\ uuids = 0
    /\ n_ok = 0
    /\ n_failed = 0
    /\ call = [op |-> "init"]
    /\ ret = Returned(None)
    /\ first_counts = << >>
    /\ last_summary = << >>
    /\ arg = None
    /\ res = None
    /\ EmbLoaded
    /\ LazyIdle

\* find_similar_failures: `if not self._indexed`; a thread that reads False
\* enters load_and_index, where it reads the log and selects its failures
LazyCheck(t) ==
    /\ tpc[t] = "idle" /\ ncalls[t] < MaxCalls
    /\ tpc' = [tpc EXCEPT ![t] = IF indexed THEN "search" ELSE "load"]
    /\ UNCHANGED <<engine, arg, res, embvars, tdone, ncalls>>

\* one turn of the loop of index_failures: index_failure embeds the next
\* failure of the log and upserts its point
LazyIndex(t) ==
    /\ tpc[t] = "load"
    /\ tdone[t] < Len(Failures(events))
    /\ index' = index_failure(index, Failures(events)[tdone[t] + 1], uuids + 1)
    /\ uuids' = uuids + 1
    /\ tdone' = [tdone EXCEPT ![t] = tdone[t] + 1]
    /\ UNCHANGED <<events, cos, indexed, n_ok, n_failed, call, ret, first_counts,
                   last_summary, arg, res, embvars, tpc, ncalls>>

\* the loop is over: index_failures returns, load_and_index sets
\* `self._indexed = True` and returns
LazySet(t) ==
    /\ tpc[t] = "load"
    /\ tdone[t] = Len(Failures(events))
    /\ indexed' = TRUE
    /\ n_ok' = n_ok + 1
    /\ tpc' = [tpc EXCEPT ![t] = "search"]
    /\ tdone' = [tdone EXCEPT ![t] = 0]
    /\ UNCHANGED <<events, cos, index, uuids, n_failed, call, ret, first_counts,
                   last_summary, arg, res, embvars, ncalls>>

\* find_similar_failures: the search and the return
LazySearch(t) ==
    /\ tpc[t] = "search"
    /\ \E q \in QueryTexts :
        /\ call' = [op |-> "find_similar", thread |-> t, query_text |-> q]
        /\ ret' = Returned(search_similar(index, cos, q, Some(TOP_K_RESULTS), None))
    /\ tpc' = [tpc EXCEPT ![t] = "idle"]
    /\ ncalls' = [ncalls EXCEPT ![t] = ncalls[t] + 1]
    /\ UNCHANGED <<events, cos, indexed, index, uuids, n_ok, n_failed, first_counts,
                   last_summary, arg, res, embvars, tdone>>

NextLazy ==
    \E t \in LazyCallers : LazyCheck(t) \/ LazyIndex(t) \/ LazySet(t) \/ LazySearch(t)

SpecLazy == InitLazy /\ [][NextLazy]_vars


(***************************************************************************)
(* Properties                                                              *)
(***************************************************************************)
Has(rec, m) == \E i \in 1..Len(rec) : rec[i] = m

\* C1: analyze_failure of an event that is not a failure (status not FAILED,
\* or level not ERROR) answers with the NotAFailure error in either engine
\* state, and the step changes neither the index nor the engine state: no
\* lazy load_and_index runs and no key is drawn.
C1_NotAFailureNoWrites ==
    [][(call'.op = "analyze" /\ NotFailedError(call'.event))
        => /\ ret' = Returned(NotAFailure)
           /\ index' = index
           /\ indexed' = indexed
           /\ uuids' = uuids
           /\ n_ok' = n_ok /\ n_failed' = n_failed]_vars

\* C1 witness: a FAILED event of level WARN was analysed on an engine that
\* is still Uninitialized although its log holds failures
C1_Witness ==
    /\ call.op = "analyze"
    /\ call.event.status = "FAILED" /\ call.event.level # "ERROR"
    /\ ret = Returned(NotAFailure)
    /\ ~indexed /\ index = << >>
    /\ Failures(events) # << >>

\* C2: every row search_similar returns scores at least the threshold the
\* caller passed (the default 30 when none was passed), and the rows are in
\* non-increasing order of score.
C2_ThresholdAndOrder ==
    (arg # None /\ arg.fn = "search_similar" /\ res # None) =>
        LET rows == res[1]
            floor == IF arg.threshold = None THEN 30 ELSE arg.threshold[1]
        IN /\ \A i \in 1..Len(rows) : rows[i].score >= floor
           /\ \A i, j \in 1..Len(rows) : i < j => rows[i].score >= rows[j].score

\* C2 witness: a query with threshold 86 over candidates inserted in
\* increasing order of score, one of them below the threshold, returned two
\* rows of different scores
C2_Witness ==
    /\ arg # None /\ arg.fn = "search_similar" /\ res # None
    /\ arg.threshold = Some(86)
    /\ Len(arg.hits) = 3 /\ Len(res[1]) = 2
    /\ arg.hits[1].score < arg.hits[2].score
    /\ arg.hits[2].score < arg.hits[3].score
    /\ res[1][1].score > res[1][2].score

\* C3 (as claimed): find_similar_failures called with top_k = k returns at
\* most k rows, for every k >= 0.
C3_AtMostK ==
    (call.op = "find_similar" /\ ~ret.raised) => Len(ret.value) <= call.top_k

\* C4: a find_similar_failures call that starts Uninitialized and returns
\* has run load_and_index before the search: the engine is Indexed, the
\* index has gained one point per failure event of the log, every failure
\* event of the log has a point, and the search saw them (a query with the
\* embedding text of a logged failure has that failure's score 100 on top).
C4_LazyLoadFirst ==
    (call.op = "find_similar" /\ ~call.before.indexed /\ ~ret.raised) =>
        LET fs == SelectSeq(events, LAMBDA e : ~NotFailedError(e)) IN
        /\ indexed
        /\ Len(index) = call.before.size + Len(fs)
        /\ \A i \in 1..Len(fs) :
            /\ \E p \in 1..Len(index) : index[p].payload.event_id = fs[i].event_id
            /\ to_embedding_text(fs[i]) = call.query_text
                => /\ ret.value # << >>
                   /\ ret.value[1].score = 100
                   /\ ret.value[1].test_name = fs[i].test_name

\* C4 witness: the first call on a fresh engine was a find_similar_failures
\* that returned rows
C4_Witness ==
    /\ call.op = "find_similar" /\ ~call.before.indexed /\ call.before.size = 0
    /\ ~ret.raised /\ ret.value # << >>
    /\ indexed /\ Len(index) >= 2

\* C5: every load_and_index call that returns, returns the counts the first
\* run returned, whatever the engine state and the index hold by then.
C5_SameCounts ==
    (call.op = "load_and_index" /\ ~ret.raised /\ first_counts # << >>)
        => ret.value = first_counts[1]

\* C5 witness: a second load_and_index returned, on an Indexed engine with
\* a non-empty index, for a log with failure, PASSED and STARTED events
C5_Witness ==
    /\ call.op = "load_and_index" /\ ~ret.raised
    /\ call.before.indexed /\ call.before.size > 0
    /\ n_ok = 2
    /\ ret.value.failures_indexed > 0
    /\ ret.value.total_events > ret.value.failures_indexed

\* C6: indexing is additive and never deduplicates: the keys of the points
\* are pairwise distinct; a load_and_index call that returns leaves the
\* index larger by the number F of failure events of the log; when every
\* run so far returned, the index holds n_ok * F points, get_collection_info
\* reports that count, and each failure event has n_ok points.
C6_Additive ==
    LET F == Cardinality({i \in 1..Len(events) : ~NotFailedError(events[i])}) IN
    /\ \A i, j \in 1..Len(index) : i # j => index[i].id # index[j].id
    /\ (call.op = "load_and_index" /\ ~ret.raised)
          => Len(index) = call.before.size + F
    /\ n_failed = 0 =>
          /\ Len(index) = n_ok * F
          /\ get_collection_info(index).points_count = n_ok * F
          /\ \A i \in 1..Len(events) : ~NotFailedError(events[i]) =>
                Cardinality({p \in 1..Len(index) :
                    index[p].payload.event_id = events[i].event_id}) = n_ok

\* C6 witness: two runs returned over a log with two failures of the same
\* embedding text, and the index holds four points
C6_Witness ==
    /\ n_ok = 2 /\ n_failed = 0
    /\ Len(Failures(events)) = 2
    /\ Len(index) = 4
    /\ index[1].vector = index[2].vector
    /\ index[1].payload = index[3].payload

\* C7: a summary call returns what the previous summary call returned when
\* no load_and_index (explicit or lazy) ran between the two.
C7_SummaryIdempotent ==
    (call.op = "summary" /\ call.earlier # << >>) => ret.value = call.earlier[1]

\* C7 witness: a repeated summary on an Indexed engine with points
C7_Witness ==
    /\ call.op = "summary" /\ call.earlier # << >>
    /\ indexed
    /\ ret.value.index_info.points_count > 0
    /\ ret.value.total_failures > 0

\* C8: at most one of the three text guidances is in a recommendation, and
\* it is that of the first rule, in the order timeout, element not found or
\* nosuchelement, assertion, whose substring occurs in the lower-cased
\* message; a message with both "timeout" and "assertion" gets the timeout
\* guidance and not the assertion guidance.
C8_FirstMatchWins ==
    (arg # None /\ arg.fn = "report" /\ res # None) =>
        LET rec == res[1].recommendation
            msg == Lower(arg.message)
            t == Contains(msg, S_timeout)
            n == Contains(msg, S_element_nf) \/ Contains(msg, S_nosuchelement)
            a == Contains(msg, S_assertion)
        IN /\ Cardinality({i \in 1..Len(rec) :
                    rec[i] \in {R_Timeout, R_NotFound, R_Assertion}}) <= 1
           /\ Has(rec, R_Timeout) <=> t
           /\ Has(rec, R_NotFound) <=> (~t /\ n)
           /\ Has(rec, R_Assertion) <=> (~t /\ ~n /\ a)
           /\ arg.message = M_AssertTime => (Has(rec, R_Timeout) /\ ~Has(rec, R_Assertion))
           /\ arg.message = M_NoSuchAssert => (Has(rec, R_NotFound) /\ ~Has(rec, R_Assertion))
           /\ arg.message = M_TimeOut => ~Has(rec, R_Timeout)

\* C8 witness: the report for the message "assertion TIMEOUT" carries the
\* timeout guidance
C8_Witness ==
    /\ arg # None /\ arg.fn = "report" /\ res # None
    /\ arg.message = M_AssertTime
    /\ Has(res[1].recommendation, R_Timeout)

\* C9: in the report analyze_failure returns for a failure event, the
\* fallback is present exactly when neither the recurring warning, nor the
\* very-high-similarity warning, nor a text guidance is; the recommendation
\* is never empty, and the fallback is never together with another message.
C9_FallbackIffNothingElse ==
    (call.op = "analyze" /\ ~NotFailedError(call.event) /\ ~ret.raised) =>
        LET rec == ret.value.recommendation
            Other(m) == m[1] \in {"RECURRING", "VERY_HIGH_SIMILARITY", "TIMEOUT",
                                  "ELEMENT_NOT_FOUND", "ASSERTION"}
        IN /\ rec # << >>
           /\ Has(rec, R_Fallback) <=> ~\E i \in 1..Len(rec) : Other(rec[i])
           /\ Has(rec, R_Fallback) => rec = <<R_Fallback>>
           /\ Has(rec, R_Fallback) <=>
                /\ \A i \in 1..Len(ret.value.similar_failures) :
                        ret.value.similar_failures[i].score <= 85
                /\ ~ (ret.value.similar_failures # << >>
                      /\ FGt(ret.value.patterns.avg_similarity, ScoreFloat(90)))
                /\ TextGuidance(call.event.message) = << >>

\* C9 witness: a failure with matches, none of them recurring, and a message
\* no text rule matches was analysed and got the fallback alone
C9_Witness ==
    /\ call.op = "analyze" /\ ~ret.raised /\ is_failure(call.event)
    /\ ret.value.similar_failures # << >>
    /\ ret.value.recommendation = <<R_Fallback>>

\* C10: in the patterns of a report, recurring is true exactly when some
\* match scores strictly more than 85 hundredths: matches at 85 do not make
\* it recurring, and no match gives recurring = FALSE.
C10_RecurringIffAbove85 ==
    (arg # None /\ arg.fn = "report" /\ res # None) =>
        LET similar == res[1].similar_failures IN
        /\ res[1].patterns.recurring
              <=> \E i \in 1..Len(similar) : similar[i].score > 85
        /\ similar = << >> => ~res[1].patterns.recurring

\* C10 witness: the best match of a report scores exactly 85 and the
\* report is not recurring
C10_Witness ==
    /\ arg # None /\ arg.fn = "report" /\ res # None
    /\ res[1].similar_failures # << >>
    /\ res[1].similar_failures[1].score = 85
    /\ ~res[1].patterns.recurring

\* C11: on a log made only of PASSED events and of FAILED events of level
\* ERROR, get_summary reports total_tests = the number of events,
\* total_failures = the number of FAILED events, and, when the log is not
\* empty, failure_rate = 100 * total_failures / total_tests: the float is
\* total_failures / total_tests * 100 computed from the two reported counts,
\* and it is the float of the quotient 100 * total_failures / total_tests
\* or a float next to it (x + ulp(x) is the float after x).
C11_SummaryFigures ==
    (/\ call.op = "summary"
     /\ \A i \in 1..Len(events) :
            \/ events[i].status = "PASSED"
            \/ events[i].status = "FAILED" /\ events[i].level = "ERROR")
    => LET s == ret.value
           failed == Cardinality({i \in 1..Len(events) : events[i].status = "FAILED"})
           ulp(x) == [m |-> <<1>> \o Zeros(MANT - 1), e |-> x.e - (MANT - 1)]
           q == TrueDiv(100 * s.total_failures, s.total_tests)
       IN /\ ~ret.raised
          /\ s.total_tests = Len(events)
          /\ s.total_failures = failed
          /\ events # << >> =>
                /\ FEq(s.failure_rate, Rate(s.total_failures, s.total_tests))
                /\ ~FGt(s.failure_rate, FAdd(q, ulp(q)))
                /\ ~FGt(q, FAdd(s.failure_rate, ulp(s.failure_rate)))

\* C11 witness: the summary of a log of one PASSED event and two FAILED
\* events of level ERROR reported 3 tests, 2 failures and the rate
\* 2 / 3 * 100, the float before that of 200 / 3
C11_Witness ==
    /\ call.op = "summary"
    /\ Len(events) = 3
    /\ Cardinality({i \in 1..3 : events[i].status = "PASSED"}) = 1
    /\ Cardinality({i \in 1..3 : events[i].status = "FAILED"
                                  /\ events[i].level = "ERROR"}) = 2
    /\ ret.value.total_tests = 3
    /\ ret.value.total_failures = 2
    /\ FEq(ret.value.failure_rate, Rate(2, 3))
    /\ FGt(TrueDiv(200, 3), ret.value.failure_rate)

\* C12: a find_similar whose embedding and backend calls all succeed returns
\* without an error for every query text and top_k; when no entry of the
\* index scores at least the default threshold against the query (the empty
\* index of a log without failure events included) it returns the empty list.
C12_NoMatchIsEmptyList ==
    (call.op = "find_similar" /\ call.fault = 0 /\ ~call.qfault) =>
        /\ ~ret.raised
        /\ (\A p \in 1..Len(index) :
                cos[encode_single(call.query_text)][index[p].vector] < SIMILARITY_THRESHOLD)
           => ret.value = << >>

\* C12 witness: a query on an Uninitialized engine whose log holds events
\* but no failure event returned the empty list; the index is still empty
C12_Witness ==
    /\ call.op = "find_similar"
    /\ ~call.before.indexed /\ call.before.size = 0
    /\ events # << >> /\ Failures(events) = << >>
    /\ index = << >>
    /\ ret = Returned(<< >>)

\* C13: in a load_and_index whose fault-th index attempt fails, every other
\* failure event of the batch is still indexed and no earlier entry is lost:
\* the index has grown by the number of failure events less one.
C13_BatchContinues ==
    (call.op = "load_and_index" /\ call.fault # 0) =>
        Len(index) = call.before.size + Len(Failures(events)) - 1

\* C14: a load_and_index, find_similar or analyze in which an index attempt,
\* the query embedding or the query itself raises ends with that error at
\* its caller; and a find_similar that returned the empty list had no such
\* error: no entry of the index cleared the threshold.
C14_ErrorsReachCaller ==
    /\ (call.op \in {"load_and_index", "find_similar", "analyze"} /\ call.fault # 0)
            => ret = Raised("BackendError")
    /\ (call.op \in {"find_similar", "analyze"} /\ call.qfault)
            => ret = Raised("BackendError")
    /\ (call.op = "find_similar" /\ ret = Returned(<< >>))
            => /\ call.fault = 0 /\ ~call.qfault
               /\ \A p \in 1..Len(index) :
                    cos[encode_single(call.query_text)][index[p].vector] < SIMILARITY_THRESHOLD

\* C14 witness: a find_similar on an Uninitialized engine whose lazy load
\* failed at its second index attempt ended with the error; the first entry
\* is in the index and the engine is still Uninitialized
C14_Witness ==
    /\ call.op = "find_similar"
    /\ call.fault = 2
    /\ ret = Raised("BackendError")
    /\ ~indexed /\ Len(index) = 1

\* C15: whatever the number and interleaving of EmbeddingService()
\* constructions, all of them yield the same object and the model is loaded
\* at most once, exactly once as soon as a construction has finished.
C15_OneInstanceOneLoad ==
    /\ loads <= 1
    /\ \A t, u \in Threads :
         \A i \in 1..Len(got[t]), j \in 1..Len(got[u]) : got[t][i] = got[u][j]
    /\ (\E t \in Threads : got[t] # << >>) => loads = 1

\* C15 witness: after the import, two callers are inside __init__ at the
\* same time, one of them in its second construction; both hold the object
\* the import made, both found its model loaded, and one load has run
C15_Witness ==
    /\ pc[1] = "load" /\ pc[2] = "load"
    /\ Len(got[1]) >= 1
    /\ obj[1] = obj[Importer] /\ obj[2] = obj[Importer]
    /\ ~flag[1] /\ ~flag[2]
    /\ loads = 1

\* C16: no step takes an Indexed engine back to Uninitialized, and no step
\* removes or modifies an entry of the index: every entry stays at its place
\* with its key, vector and payload, so the index only grows.
C16_IrreversibleGrowOnly ==
    [][/\ indexed => indexed'
       /\ Len(index') >= Len(index)
       /\ \A i \in 1..Len(index) : index'[i] = index[i]]_vars

\* C16 witness: a load_and_index on an Indexed engine with entries failed
\* part-way after adding an entry; the engine is still Indexed
C16_Witness ==
    /\ call.op = "load_and_index"
    /\ call.before.indexed /\ call.before.size > 0
    /\ ret.raised
    /\ indexed
    /\ Len(index) > call.before.size

\* C17: when search_similar is called with an explicit score threshold t
\* (0 included), t is the floor: the rows returned are the best candidates
\* scoring at least t, as many as the limit allows.
C17_ExplicitThresholdIsFloor ==
    (arg # None /\ arg.fn = "search_similar" /\ res # None /\ arg.threshold # None) =>
        LET t == arg.threshold[1]
            rows == res[1]
            eligible == Cardinality({i \in 1..Len(arg.hits) : arg.hits[i].score >= t})
        IN /\ \A i \in 1..Len(rows) : rows[i].score >= t
           /\ Len(rows) = Min(EffectiveTopK(arg.top_k), eligible)

\* C18: every entry of the index was created from a FAILED event of level
\* ERROR of the log; a load_and_index whose index attempts all succeed
\* returns without error and adds one entry per failure event, skipping the
\* other events of the batch; and index_failure called with an event that
\* is not a failure raises ValueError before any embedding or write.
C18_OnlyFailuresIndexed ==
    /\ \A p \in 1..Len(index) :
         \E i \in 1..Len(events) :
            /\ events[i].event_id = index[p].payload.event_id
            /\ events[i].status = "FAILED" /\ events[i].level = "ERROR"
    /\ (call.op = "load_and_index" /\ call.fault = 0) =>
         /\ ~ret.raised
         /\ Len(index) = call.before.size
               + Cardinality({i \in 1..Len(events) : ~NotFailedError(events[i])})
    /\ (call.op = "index_failure" /\ NotFailedError(call.event)) =>
         /\ ret = Raised("ValueError")
         /\ ~call.embedded
         /\ Len(index) = call.before.size

\* C18 witness: on a log with a failure and another event, indexed by a
\* load_and_index, index_failure was called with a FAILED event of level
\* WARN and raised ValueError; the index holds the one failure
C18_Witness ==
    /\ call.op = "index_failure"
    /\ call.event.status = "FAILED" /\ call.event.level = "WARN"
    /\ ret = Raised("ValueError")
    /\ indexed /\ Len(index) = 1
    /\ Len(events) >= 2
    /\ \E i \in 1..Len(events) : NotFailedError(events[i])

\* C19: a load_and_index that returns reports total_events = the number of
\* events of the log, failures_indexed = the number of FAILED events of level
\* ERROR = the number of entries the call added, passed and started = the
\* numbers of PASSED and STARTED events; the three counts sum to at most
\* total_events, to less exactly when some event is neither PASSED, STARTED
\* nor a failure.
C19_LoadCounts ==
    (call.op = "load_and_index" /\ ~ret.raised) =>
        LET c == ret.value
            n == Len(events)
            Count(P(_)) == Cardinality({i \in 1..n : P(events[i])})
            IsFailure(e) == e.status = "FAILED" /\ e.level = "ERROR"
            IsPassed(e) == e.status = "PASSED"
            IsStarted(e) == e.status = "STARTED"
            IsOther(e) == ~IsFailure(e) /\ ~IsPassed(e) /\ ~IsStarted(e)
            sum == c.failures_indexed + c.passed + c.started
        IN /\ c.total_events = n
           /\ c.failures_indexed = Count(IsFailure)
           /\ c.failures_indexed = Len(index) - call.before.size
           /\ c.passed = Count(IsPassed)
           /\ c.started = Count(IsStarted)
           /\ sum <= c.total_events
           /\ (sum < c.total_events) <=> (\E i \in 1..n : IsOther(events[i]))

\* C19 witness: load_and_index returned on a log of a failure, a PASSED
\* event and a FAILED event of level WARN: 3 events, 1 indexed, 1 passed,
\* 0 started, and the sum 2 is less than 3
C19_Witness ==
    /\ call.op = "load_and_index" /\ ~ret.raised
    /\ \E i \in 1..Len(events) : events[i].status = "FAILED" /\ events[i].level = "WARN"
    /\ ret.value = [total_events |-> 3, failures_indexed |-> 1, passed |-> 1, started |-> 0]
    /\ Len(index) = call.before.size + 1

\* C20: summary in any state, and find_similar and analyze on an Indexed
\* engine, leave the index entries and the engine state as they were; and a
\* summary on an Uninitialized engine reports an entry count of 0.
C20_OnlyLoadChangesState ==
    /\ (\/ call.op = "summary"
        \/ call.op \in {"find_similar", "analyze"} /\ call.before.indexed)
       => /\ Len(index) = call.before.size
          /\ indexed = call.before.indexed
    /\ (call.op = "summary" /\ ~call.before.indexed)
       => ret.value.index_info.points_count = 0

\* C21: the messages of a recommendation stand in rule order without
\* repetition: recurring warning, very-high-similarity warning, text
\* guidance; the recurring warning is present exactly when patterns.recurring
\* is true and cites the number of retrieved matches; the very-high warning
\* is present exactly when there are matches and the avg_similarity of the
\* report is above 0.9, not at 0.9.
C21_RuleOrder ==
    (arg # None /\ arg.fn = "report" /\ res # None) =>
        LET rec == res[1].recommendation
            sim == res[1].similar_failures
            n == Len(sim)
            RuleOf(m) == IF m[1] = "RECURRING" THEN 1
                         ELSE IF m[1] = "VERY_HIGH_SIMILARITY" THEN 2
                         ELSE IF m \in {R_Timeout, R_NotFound, R_Assertion} THEN 3
                         ELSE 4
        IN /\ \A i, j \in 1..Len(rec) : i < j => RuleOf(rec[i]) < RuleOf(rec[j])
           /\ (\E i \in 1..Len(rec) : rec[i][1] = "RECURRING") <=> res[1].patterns.recurring
           /\ \A i \in 1..Len(rec) : rec[i][1] = "RECURRING" => rec[i] = R_Recurring(n)
           /\ Has(rec, R_VeryHigh)
                <=> (n > 0 /\ FGt(res[1].patterns.avg_similarity, ScoreFloat(90)))
           /\ (n > 0 /\ FEq(res[1].patterns.avg_similarity, ScoreFloat(90)))
                => ~Has(rec, R_VeryHigh)

\* C21 witness: two matches scoring 0.86 and 0.95 (average above 0.9) for a
\* timeout message: the recommendation is the recurring warning citing 2,
\* then the very-high warning, then the timeout guidance
C21_Witness ==
    /\ arg # None /\ arg.fn = "report" /\ res # None
    /\ Len(res[1].similar_failures) = 2
    /\ res[1].similar_failures[1].score = 95
    /\ res[1].similar_failures[2].score = 86
    /\ res[1].recommendation = <<R_Recurring(2), R_VeryHigh, R_Timeout>>

\* the sum of the counts of a name -> count mapping
RECURSIVE SumCounts(_, _)
SumCounts(counts, keys) ==
    IF keys = {} THEN 0
    ELSE LET k == CHOOSE k \in keys : TRUE
         IN counts[k] + SumCounts(counts, keys \ {k})

\* the PatternSummary p has the mapping named field, with at most 5 keys,
\* each counting the matches of sim that carry that name, summing to at most
\* the frequency
DerivedCounts(p, field, names) ==
    /\ field \in DOMAIN p
    /\ Cardinality(DOMAIN p[field]) <= MOST_COMMON
    /\ \A k \in DOMAIN p[field] :
         p[field][k] = Cardinality({i \in 1..Len(names) : names[i] = k})
    /\ SumCounts(p[field], DOMAIN p[field]) <= p.frequency

\* C22: in every report analyze returns for a failure event, frequency is
\* the length of similar_failures, affected_tests and affected_classes are
\* mappings of at most 5 keys counting the retrieved matches by test name
\* and by class name, and test_name, class_name and error_message are those
\* of the analysed event.
C22_PatternsFromResults ==
    (call.op = "analyze" /\ ~NotFailedError(call.event) /\ ~ret.raised) =>
        LET r == ret.value
            sim == r.similar_failures
            p == r.patterns
        IN /\ p.frequency = Len(sim)
           /\ DerivedCounts(p, "affected_tests", [i \in 1..Len(sim) |-> sim[i].test_name])
           /\ DerivedCounts(p, "affected_classes", [i \in 1..Len(sim) |-> sim[i].class_name])
           /\ r.test_name = call.event.test_name
           /\ r.class_name = call.event.class_name
           /\ r.error_message = call.event.message

\* C22 as amended: the same, the two mappings being required of the reports
\* with at least one match; the PatternSummary of a report without a match
\* is recurring = false and frequency = 0 alone.
C22_PatternsFromResultsAmended ==
    (call.op = "analyze" /\ ~NotFailedError(call.event) /\ ~ret.raised) =>
        LET r == ret.value
            sim == r.similar_failures
            p == r.patterns
        IN /\ p.frequency = Len(sim)
           /\ sim # << >> =>
                /\ DerivedCounts(p, "affected_tests",
                                 [i \in 1..Len(sim) |-> sim[i].test_name])
                /\ DerivedCounts(p, "affected_classes",
                                 [i \in 1..Len(sim) |-> sim[i].class_name])
           /\ sim = << >> => p = [recurring |-> FALSE, frequency |-> 0]
           /\ r.test_name = call.event.test_name
           /\ r.class_name = call.event.class_name
           /\ r.error_message = call.event.message

\* C22 witness: a report with three matches, two of one test and one of
\* another: affected_tests has two keys with the counts 2 and 1
C22_Witness ==
    /\ call.op = "analyze" /\ ~NotFailedError(call.event) /\ ~ret.raised
    /\ Len(ret.value.similar_failures) = 3
    /\ DOMAIN ret.value.patterns.affected_tests = {"testA", "testB"}
    /\ ret.value.patterns.affected_tests["testA"] = 2
    /\ ret.value.patterns.affected_tests["testB"] = 1
    /\ ret.value.patterns.frequency = 3

\* C23: once calls of find_similar_failures have finished on an engine on
\* which load_and_index was never called explicitly, and none is in
\* progress, load_and_index has run exactly once and the index holds
\* exactly one entry for each failure event of the log.
C23_LazyLoadOnce ==
    (/\ \A t \in LazyCallers : tpc[t] = "idle"
     /\ \E t \in LazyCallers : ncalls[t] > 0)
    => /\ n_ok = 1
       /\ Len(index) = Len(Failures(events))
       /\ \A i \in 1..Len(events) :
            is_failure(events[i]) =>
                Cardinality({p \in 1..Len(index) :
                    index[p].payload.event_id = events[i].event_id}) = 1

\* C24: an engine in state Uninitialized has an empty index, also after a
\* load_and_index that failed part-way through its batch.
C24_UninitializedIsEmpty ==
    ~indexed => index = << >>

\* C25: in every report the very-high-similarity warning comes with the
\* recurring warning: an average score above 0.9 means that some match
\* scores above 0.85, so patterns.recurring is true whenever the very-high
\* warning is given.
C25_VeryHighImpliesRecurring ==
    (arg # None /\ arg.fn = "report" /\ res # None) =>
        LET rec == res[1].recommendation
            sim == res[1].similar_failures
        IN /\ (sim # << >> /\ FGt(res[1].patterns.avg_similarity, ScoreFloat(90)))
                => \E i \in 1..Len(sim) : sim[i].score > 85
           /\ Has(rec, R_VeryHigh)
                => /\ res[1].patterns.recurring
                   /\ Has(rec, R_Recurring(Len(sim)))

\* C25 witness: three matches scoring 1.0, 1.0 and 0.85 (average 0.95): the
\* report carries both warnings although its last match is not above 0.85
C25_Witness ==
    /\ arg # None /\ arg.fn = "report" /\ res # None
    /\ Len(res[1].similar_failures) = 3
    /\ res[1].similar_failures[3].score = 85
    /\ res[1].similar_failures[1].score = 100
    /\ Has(res[1].recommendation, R_VeryHigh)
    /\ Has(res[1].recommendation, R_Recurring(3))

C27_IndexedFailureIsRecurring ==
    (/\ call.op = "analyze" /\ ~NotFailedError(call.event) /\ ~ret.raised
     /\ \E p \in 1..Len(index) : index[p].payload.event_id = call.event.event_id)
    => LET r == ret.value IN
       /\ r.patterns.frequency >= 1
       /\ r.similar_failures[1].score = 100
       /\ r.patterns.recurring
       /\ Has(r.recommendation, R_Recurring(r.patterns.frequency))
       /\ ~Has(r.recommendation, R_Fallback)

\* C27 witness: after load_and_index on a log of two failures with
\* different texts that score below 0.3 against each other, the analysis of
\* the one without a rule-matching message found its own entry alone and
\* reports it as recurring
C27_Witness ==
    /\ call.op = "analyze" /\ call.event = E3 /\ ~ret.raised
    /\ call.before.indexed
    /\ Len(index) = 2
    /\ \E p \in 1..2 : index[p].payload.event_id = "e3"
    /\ Len(ret.value.similar_failures) = 1
    /\ ret.value.recommendation = <<R_Recurring(1), R_VeryHigh>>

\* C28: in every summary total_failures <= total_tests; when total_tests is
\* positive, failure_rate = 100 * total_failures / total_tests (the float of
\* that quotient or a float next to it); and on an empty log the summary is
\* returned with failure_rate = 0.
C28_SummaryConsistent ==
    (call.op = "summary") =>
        LET s == ret.value
            ulp(x) == [m |-> <<1>> \o Zeros(MANT - 1), e |-> x.e - (MANT - 1)]
            q == TrueDiv(100 * s.total_failures, s.total_tests)
        IN
        /\ ~ret.raised
        /\ s.total_failures <= s.total_tests
        /\ s.total_tests > 0 =>
             /\ ~FGt(s.failure_rate, FAdd(q, ulp(q)))
             /\ ~FGt(q, FAdd(s.failure_rate, ulp(s.failure_rate)))
        /\ events = << >> => s.failure_rate = FZero

====
